---- MODULE Spec2Model ----
(***************************************************************************)
(* Model of the economic-calendar bot (bot.py) and of the 2026 OPEX        *)
(* calendar bot (opex_2026_bot.py).                                        *)
(*                                                                         *)
(* A Python str is a sequence of strings whose concatenation is the text:  *)
(* text that is case-folded, stripped or searched is held one character    *)
(* per element, so that lower(), strip() and the substring test are        *)
(* computed; literal text that is only copied is held in one piece.        *)
(* Enumerated values (impact levels, dictionary keys, program positions)   *)
(* are TLA+ strings.  A dict is a function whose domain is its key set.    *)
(*                                                                         *)
(* Three specifications: SpecFilter applies filter_events to bounded       *)
(* inputs, SpecTypes applies the date classifiers of opex_2026_bot.py to   *)
(* every day around 2026, and Spec is one run of either bot from main.     *)
(***************************************************************************)
EXTENDS Integers, Sequences, FiniteSets, TLC

VARIABLES
    pc,           \* position of the running program
    WEBHOOK_URL,  \* module-level webhook URL read from the environment
    today,        \* current date, as a day number (see DateOf)
    op,           \* operation selected by main
    page,         \* outcome of the HTTP GET: status and rows of the page
    event_rows,   \* rows of the page not yet visited by the parse loop
    events,       \* records appended so far by the parse loop
    all_events,   \* result of scrape_investing_com / input of filter_events
    country,      \* filter_events argument
    min_impact,   \* filter_events argument
    filtered,     \* result of filter_events
    embed,        \* arguments of the last send_discord_embed call
    calls,        \* number of send_discord_embed invocations
    posts,        \* number of requests.post invocations
    response,     \* outcome of the last requests.post
    result,       \* return value of the last send_discord_embed
    raised,       \* TRUE when an exception escaped to the caller
    date_str,     \* argument of get_event_type / get_color_for_event
    labels,       \* result of get_event_type
    color,        \* result of get_color_for_event
    emoji,        \* result of get_importance_emoji
    upcoming      \* entries of get_upcoming_opex not yet handled

notifierVars == <<WEBHOOK_URL, embed, calls, posts, response, result, raised>>
scraperVars == <<op, page, event_rows, events>>
filterVars == <<all_events, country, min_impact, filtered>>
typeVars == <<date_str, labels, color, emoji, upcoming>>

vars == <<pc, today, notifierVars, scraperVars, filterVars, typeVars>>

\* ------------------------------------------------------------------------
\* Bounds of the model
\* ------------------------------------------------------------------------
MaxEvents == 3
MaxStrLen == 2
MaxRows == 3

\* ------------------------------------------------------------------------
\* Python str and dict primitives
\* ------------------------------------------------------------------------
\* None: a one-element sequence that no str equals
None == <<"None">>

UpperChars == <<"A","B","C","D","E","F","G","H","I","J","K","L","M",
                "N","O","P","Q","R","S","T","U","V","W","X","Y","Z">>
LowerChars == <<"a","b","c","d","e","f","g","h","i","j","k","l","m",
                "n","o","p","q","r","s","t","u","v","w","x","y","z">>

\* str.lower() on one character
LowerChar(c) ==
    IF \E i \in 1..26 : UpperChars[i] = c
    THEN LowerChars[CHOOSE i \in 1..26 : UpperChars[i] = c]
    ELSE c

\* str.lower()
Lower(s) == [i \in 1..Len(s) |-> LowerChar(s[i])]

\* the Python test  sub in s  on two str
StrIn(sub, s) ==
    \E off \in 0..Len(s) :
        /\ off + Len(sub) <= Len(s)
        /\ SubSeq(s, off + 1, off + Len(sub)) = sub

IsSpace(c) == c \in {" ", "\n", "\t"}

RECURSIVE LStrip(_)
LStrip(s) == IF s # <<>> /\ IsSpace(Head(s)) THEN LStrip(Tail(s)) ELSE s

RECURSIVE RStrip(_)
RStrip(s) ==
    IF s # <<>> /\ IsSpace(s[Len(s)]) THEN RStrip(SubSeq(s, 1, Len(s) - 1)) ELSE s

\* str.strip()
Strip(s) == RStrip(LStrip(s))

\* dict.get(key, default)
DictGet(d, key, default) == IF key \in DOMAIN d THEN d[key] ELSE default

\* bool(x) for a str or None
Truthy(x) == x # None /\ x # <<>>

\* ------------------------------------------------------------------------
\* bot.py : filter_events
\* ------------------------------------------------------------------------
impact_levels == [Low |-> 1, Medium |-> 2, High |-> 3]

\* a plausible slip: an unlisted impact gets the default of the line above (2)
FilterKeepsUnknownAsMedium(event, ctry, min_level) ==
    /\ StrIn(Lower(ctry), Lower(DictGet(event, "country", <<>>)))
    /\ DictGet(impact_levels, DictGet(event, "impact", "Unknown"), 2) >= min_level

\* the body of the for loop of filter_events: TRUE when the event is appended
FilterKeeps(event, ctry, min_level) ==
    /\ StrIn(Lower(ctry), Lower(DictGet(event, "country", <<>>)))
    /\ DictGet(impact_levels, DictGet(event, "impact", "Unknown"), 0) >= min_level

\* a plausible slip: survivors are pushed to the front of the result
RECURSIVE FilterLoopFront(_, _, _, _)
FilterLoopFront(evs, ctry, min_level, acc) ==
    IF evs = <<>> THEN acc
    ELSE FilterLoopFront(Tail(evs), ctry, min_level,
                    IF FilterKeeps(Head(evs), ctry, min_level)
                    THEN <<Head(evs)>> \o acc ELSE acc)

RECURSIVE FilterLoop(_, _, _, _)
FilterLoop(evs, ctry, min_level, acc) ==
    IF evs = <<>> THEN acc
    ELSE FilterLoop(Tail(evs), ctry, min_level,
                    IF FilterKeeps(Head(evs), ctry, min_level)
                    THEN Append(acc, Head(evs)) ELSE acc)

filter_events(evs, ctry, min_imp) ==
    FilterLoop(evs, ctry, DictGet(impact_levels, min_imp, 2), <<>>)

\* ------------------------------------------------------------------------
\* Values of the variables a specification does not use
\* ------------------------------------------------------------------------
NoEmbed ==
    [title |-> <<>>, description |-> <<>>, color |-> 0, fields |-> <<>>,
     footer_text |-> <<>>]
NoResponse == [kind |-> "none", status_code |-> 0]
NoPage == [status |-> "none", rows |-> <<>>]

IdleNotifier ==
    /\ WEBHOOK_URL = None
    /\ embed = NoEmbed
    /\ calls = 0
    /\ posts = 0
    /\ response = NoResponse
    /\ result = FALSE
    /\ raised = FALSE

IdleScraper ==
    /\ op = "none"
    /\ page = NoPage
    /\ event_rows = <<>>
    /\ events = <<>>

IdleFilter ==
    /\ all_events = <<>>
    /\ country = <<>>
    /\ min_impact = "Medium"
    /\ filtered = <<>>

IdleTypes ==
    /\ date_str = 0
    /\ labels = <<>>
    /\ color = 0
    /\ emoji = ""
    /\ upcoming = <<>>

\* ------------------------------------------------------------------------
\* SpecFilter : filter_events applied to bounded inputs
\* ------------------------------------------------------------------------
Digits == <<"1", "2", "3", "4", "5", "6", "7", "8", "9">>

\* event shapes fed to the filter: country and impact keys present or absent
EventShapes ==
    { [country |-> <<"U","s">>, impact |-> "High"],
      [country |-> <<"u","S">>, impact |-> "Medium"],
      [country |-> <<"U","s">>, impact |-> "Low"],
      [country |-> <<"U","s">>, impact |-> "Unknown"],
      [country |-> <<"U","s">>],
      [country |-> <<"s">>, impact |-> "High"],
      [impact |-> "High"],
      [country |-> <<"a","U","S">>, impact |-> "Holiday"] }

\* every sequence of at most MaxEvents shapes; the name is the position
FilterInputs ==
    UNION { { [i \in 1..n |-> f[i] @@ ("name" :> <<"e", Digits[i]>>)] :
                f \in [1..n -> EventShapes] } : n \in 0..MaxEvents }

FilterAlphabet == {"U", "u", "s"}

\* every str of at most MaxStrLen characters
FilterCountries == UNION { [1..n -> FilterAlphabet] : n \in 0..MaxStrLen }

FilterMinImpacts == {"Low", "Medium", "High", "Unknown"}

InitFilter ==
    /\ pc = "filter_call"
    /\ today = 0
    /\ all_events \in FilterInputs
    /\ country \in FilterCountries
    /\ min_impact \in FilterMinImpacts
    /\ filtered = <<>>
    /\ IdleNotifier /\ IdleScraper /\ IdleTypes

CallFilter ==
    /\ pc = "filter_call"
    /\ filtered' = filter_events(all_events, country, min_impact)
    /\ pc' = "filter_done"
    /\ UNCHANGED <<today, all_events, country, min_impact,
                   notifierVars, scraperVars, typeVars>>

NextFilter == CallFilter

SpecFilter == InitFilter /\ [][NextFilter]_vars

\* ------------------------------------------------------------------------
\* Claims about filter_events
\* ------------------------------------------------------------------------
\* the ordinal of an impact value: Low=1, Medium=2, High=3, anything else 0
ImpactOrdinal(x) ==
    CASE x = "Low" -> 1 [] x = "Medium" -> 2 [] x = "High" -> 3 [] OTHER -> 0

EventImpact(e) == IF "impact" \in DOMAIN e THEN e.impact ELSE "Unknown"

\* field contains sub, comparing characters without regard to case
ContainsIgnoringCase(field, sub) ==
    \E off \in 0..Len(field) :
        /\ off + Len(sub) <= Len(field)
        /\ \A k \in 1..Len(sub) : LowerChar(field[off + k]) = LowerChar(sub[k])

\* C1: filter_events returns only events whose impact ordinal is at least the
\* ordinal of min_impact and whose country field contains the country string
\* case-insensitively; an event of unlisted impact is returned only when the
\* threshold ordinal is 0.
C1_FilterSound ==
    pc = "filter_done" =>
        \A i \in 1..Len(filtered) :
            /\ ImpactOrdinal(EventImpact(filtered[i])) >= ImpactOrdinal(min_impact)
            /\ ContainsIgnoringCase(DictGet(filtered[i], "country", <<>>), country)
            /\ ImpactOrdinal(EventImpact(filtered[i])) = 0
                   => ImpactOrdinal(min_impact) = 0

\* an event passes on a country that differs in case and an event of the
\* same country is dropped for its impact
C1_Witness ==
    /\ pc = "filter_done"
    /\ country = <<"U", "s">>
    /\ min_impact = "Medium"
    /\ \E i \in 1..Len(filtered) : filtered[i].country = <<"u", "S">>
    /\ \E i \in 1..Len(all_events) :
          /\ DictGet(all_events[i], "country", <<>>) = <<"U", "s">>
          /\ EventImpact(all_events[i]) \in {"Low", "Unknown"}
          /\ \A j \in 1..Len(filtered) : filtered[j] # all_events[i]

\* s is t with some elements removed: an increasing choice of positions of t
IsSubsequence(s, t) ==
    \E f \in [1..Len(s) -> 1..Len(t)] :
        /\ \A i \in 1..Len(s) : s[i] = t[f[i]]
        /\ \A i, j \in 1..Len(s) : i < j => f[i] < f[j]

\* C2: the result of filter_events is a subsequence of its input: survivors
\* keep their relative order, none is duplicated or altered.
C2_FilterStable == pc = "filter_done" => IsSubsequence(filtered, all_events)

\* two survivors with a dropped event between them
C2_Witness ==
    /\ pc = "filter_done"
    /\ Len(all_events) = 3
    /\ filtered = <<all_events[1], all_events[3]>>

\* ------------------------------------------------------------------------
\* Dates.  A day is a day number counted from 2025-01-01 (day 0); the years
\* 2025, 2026 and 2027 have 365 days each.  An ISO date string "YYYY-MM-DD"
\* is the integer YYYYMMDD, whose order is the order of the strings.
\* ------------------------------------------------------------------------
MonthLengths == <<31, 28, 31, 30, 31, 30, 31, 31, 30, 31, 30, 31>>

RECURSIVE MonthDay(_, _)
MonthDay(doy, m) ==
    IF doy < MonthLengths[m] THEN <<m, doy + 1>>
    ELSE MonthDay(doy - MonthLengths[m], m + 1)

\* date.strftime('%Y-%m-%d')
DateOf(n) ==
    LET md == MonthDay(n % 365, 1)
    IN  (2025 + (n \div 365)) * 10000 + md[1] * 100 + md[2]

RECURSIVE DaysBefore(_)
DaysBefore(m) == IF m = 1 THEN 0 ELSE DaysBefore(m - 1) + MonthLengths[m - 1]

\* the string names a calendar day of 2025..2027
IsDate(d) ==
    LET y == d \div 10000
        m == (d \div 100) % 100
        dd == d % 100
    IN  /\ y \in 2025..2027
        /\ m \in 1..12
        /\ dd >= 1 /\ dd <= MonthLengths[m]

\* datetime.strptime(d, "%Y-%m-%d").date()
DayNumber(d) ==
    ((d \div 10000) - 2025) * 365 + DaysBefore((d \div 100) % 100) + (d % 100) - 1

\* the Python test  x in list
InList(x, list) == \E i \in 1..Len(list) : list[i] = x

\* ------------------------------------------------------------------------
\* opex_2026_bot.py : static schedule tables
\* ------------------------------------------------------------------------
VIX_STANDARD_2026 ==
    <<20260121, 20260218, 20260318, 20260415, 20260520, 20260617,
       20260715, 20260819, 20260916, 20261021, 20261118, 20261216>>

VIX_WEEKLYS_2026 ==
    <<20260107, 20260114, 20260128, 20260204, 20260211, 20260225,
       20260304, 20260311, 20260325, 20260401, 20260408, 20260422,
       20260429, 20260506, 20260513, 20260527, 20260603, 20260610,
       20260624, 20260701, 20260708, 20260722, 20260729, 20260805,
       20260812, 20260826, 20260902, 20260909, 20260923, 20260930,
       20261007, 20261014, 20261028, 20261104, 20261111, 20261125,
       20261202, 20261209, 20261223, 20261230>>

OCC_MONTHLY_2026 ==
    <<20260116, 20260220, 20260320, 20260417, 20260515, 20260619,
       20260717, 20260821, 20260918, 20261016, 20261120, 20261218>>

QUARTERLY_2026 ==
    <<20260331, 20260630, 20260930, 20261231>>

END_OF_MONTH_2026 ==
    <<20260130, 20260227, 20260331, 20260430, 20260529, 20260630,
       20260731, 20260831, 20260930, 20261030, 20261130, 20261231>>

\* ------------------------------------------------------------------------
\* opex_2026_bot.py : get_event_type, get_color_for_event, get_importance_emoji
\* ------------------------------------------------------------------------
\* a plausible slip: the outer membership test of the end-of-month block is lost
EomLabelsUnguarded(d) ==
    IF ~InList(d, QUARTERLY_2026) THEN <<"EOM Options">> ELSE <<>>

\* the end-of-month block of get_event_type
EomLabels(d) ==
    IF InList(d, END_OF_MONTH_2026)
    THEN IF ~InList(d, QUARTERLY_2026) THEN <<"EOM Options">> ELSE <<>>
    ELSE <<>>

\* the VIX-weekly block of get_event_type
VixWeeklyLabels(d) ==
    IF InList(d, VIX_WEEKLYS_2026) THEN <<"VIX Weekly">> ELSE <<>>

\* the OCC block of get_event_type
OccLabels(d) ==
    IF InList(d, OCC_MONTHLY_2026)
    THEN IF InList(d, QUARTERLY_2026) THEN <<"Quarterly OPEX">> ELSE <<"Monthly OPEX">>
    ELSE <<>>

get_event_type(d) ==
    (IF InList(d, VIX_STANDARD_2026) THEN <<"VIX Monthly">> ELSE <<>>)
    \o VixWeeklyLabels(d)
    \o OccLabels(d)
    \o EomLabels(d)

get_color_for_event(d) ==
    IF InList(d, QUARTERLY_2026) THEN 15844367
    ELSE IF InList(d, OCC_MONTHLY_2026) THEN 15548997
    ELSE IF InList(d, VIX_STANDARD_2026) THEN 10181046
    ELSE IF InList(d, END_OF_MONTH_2026) THEN 3447003
    ELSE 7506394

\* a plausible slip: the end-of-month test is made before the quarterly one
get_importance_emoji_eom_first(d) ==
    IF InList(d, END_OF_MONTH_2026) THEN "blue_circle"
    ELSE IF InList(d, QUARTERLY_2026) THEN "red_circle"
    ELSE IF InList(d, OCC_MONTHLY_2026) THEN "orange_circle"
    ELSE IF InList(d, VIX_STANDARD_2026) THEN "purple_circle"
    ELSE "white_circle"

get_importance_emoji(d) ==
    IF InList(d, QUARTERLY_2026) THEN "red_circle"
    ELSE IF InList(d, OCC_MONTHLY_2026) THEN "orange_circle"
    ELSE IF InList(d, VIX_STANDARD_2026) THEN "purple_circle"
    ELSE IF InList(d, END_OF_MONTH_2026) THEN "blue_circle"
    ELSE "white_circle"

\* ------------------------------------------------------------------------
\* SpecTypes : the three date classifiers applied to every day of 2026
\* ------------------------------------------------------------------------
FirstDay == 360
LastDay == 735

DateInputs == { DateOf(n) : n \in FirstDay..LastDay }

InitTypes ==
    /\ pc = "types_call"
    /\ today = 0
    /\ date_str \in DateInputs
    /\ labels = <<>>
    /\ color = 0
    /\ emoji = ""
    /\ upcoming = <<>>
    /\ IdleNotifier /\ IdleScraper /\ IdleFilter

CallTypes ==
    /\ pc = "types_call"
    /\ labels' = get_event_type(date_str)
    /\ color' = get_color_for_event(date_str)
    /\ emoji' = get_importance_emoji(date_str)
    /\ pc' = "types_done"
    /\ UNCHANGED <<today, date_str, upcoming, notifierVars, scraperVars, filterVars>>

NextTypes == CallTypes

SpecTypes == InitTypes /\ [][NextTypes]_vars

\* ------------------------------------------------------------------------
\* Claims about get_event_type
\* ------------------------------------------------------------------------
\* C5: for a date of both the quarterly table and the end-of-month table
\* (2026-03-31, 2026-06-30, 2026-09-30, 2026-12-31) the label list of
\* get_event_type includes "Quarterly OPEX" and does not include "EOM Options".
C5_QuarterlyLabel ==
    (/\ pc = "types_done"
     /\ InList(date_str, QUARTERLY_2026)
     /\ InList(date_str, END_OF_MONTH_2026))
    => /\ InList("Quarterly OPEX", labels)
       /\ ~InList("EOM Options", labels)

\* C8: for a date that is in the VIX-weekly table and in no other table
\* (2026-01-07 is one) get_event_type returns exactly <<"VIX Weekly">>.
C8_VixWeeklyOnly ==
    (/\ pc = "types_done"
     /\ InList(date_str, VIX_WEEKLYS_2026)
     /\ ~InList(date_str, VIX_STANDARD_2026)
     /\ ~InList(date_str, OCC_MONTHLY_2026)
     /\ ~InList(date_str, QUARTERLY_2026)
     /\ ~InList(date_str, END_OF_MONTH_2026))
    => labels = <<"VIX Weekly">>

\* get_event_type has run on 2026-01-07
C8_Witness ==
    /\ pc = "types_done"
    /\ date_str = 20260107
    /\ labels = <<"VIX Weekly">>

\* ------------------------------------------------------------------------
\* bot.py : get_mock_data
\* ------------------------------------------------------------------------
UnitedStates == <<"U", "n", "i", "t", "e", "d", " ", "S", "t", "a", "t", "e", "s">>

MockEvent(date, time, name, impact, forecast, previous) ==
    [date |-> date, time |-> time, name |-> name, impact |-> impact,
     country |-> UnitedStates, forecast |-> forecast, previous |-> previous,
     actual |-> <<>>]

\* the events appended for date_filter = 'week': i = 2..7
MockWeekEvents(now) ==
    [k \in 1..6 |->
        MockEvent(DateOf(now + k + 1), <<"8:30 AM">>,
                  <<"Economic Event ", Digits[k + 1]>>,
                  IF (k + 1) % 2 = 0 THEN "Medium" ELSE "High", <<>>, <<>>)]

get_mock_data(date_filter, now) ==
    LET tomorrow_str == DateOf(now + 1)
        mock_events == <<
        MockEvent(tomorrow_str, <<"8:30 AM">>, <<"Existing Home Sales">>, "High", <<"3.89M">>, <<"4.15M">>),
        MockEvent(tomorrow_str, <<"8:30 AM">>, <<"Building Permits">>, "Medium", <<"1.46M">>, <<"1.50M">>),
        MockEvent(tomorrow_str, <<"8:30 AM">>, <<"Housing Starts">>, "Medium", <<"1.33M">>, <<"1.29M">>),
        MockEvent(tomorrow_str, <<"10:00 AM">>, <<"CB Leading Index m/m">>, "Medium", <<"-0.1%">>, <<"-0.1%">>),
        MockEvent(tomorrow_str, <<"2:00 PM">>, <<"Crude Oil Inventories">>, "Medium", <<>>, <<"-1.0M">>),
        MockEvent(tomorrow_str, <<"4:30 PM">>, <<"Fed Balance Sheet">>, "Medium", <<>>, <<"6.89T">>) >>
    IN  IF date_filter = "week" THEN mock_events \o MockWeekEvents(now)
        ELSE mock_events

\* ------------------------------------------------------------------------
\* bot.py : the per-row extraction of scrape_investing_com.
\* A row is a dict of the sub-elements that row.find() locates; an absent key
\* is a find() that returns None.  A row with the key "malformed" is one whose
\* extraction raises.
\* ------------------------------------------------------------------------
UnknownCountry == <<"U", "n", "k", "n", "o", "w", "n">>

RowRaises(row) == "malformed" \in DOMAIN row

ParseTime(row) ==
    IF "time" \in DOMAIN row THEN Strip(row.time) ELSE <<"N/A">>

ParseCountry(row) ==
    IF "flagCur" \in DOMAIN row
    THEN IF "span" \in DOMAIN row.flagCur /\ "title" \in DOMAIN row.flagCur.span
         THEN row.flagCur.span.title
         ELSE UnknownCountry
    ELSE UnknownCountry

ParseImpact(row) ==
    IF "sentiment" \in DOMAIN row
    THEN IF row.sentiment.bull_count = 3 THEN "High"
         ELSE IF row.sentiment.bull_count = 2 THEN "Medium"
         ELSE "Low"
    ELSE "Unknown"

\* a plausible slip: the default of the country field is reused for the name
ParseNameUnknown(row) ==
    IF "event" \in DOMAIN row
    THEN IF "a" \in DOMAIN row.event THEN Strip(row.event.a)
         ELSE Strip(row.event.text)
    ELSE <<"Unknown">>

ParseName(row) ==
    IF "event" \in DOMAIN row
    THEN IF "a" \in DOMAIN row.event THEN Strip(row.event.a)
         ELSE Strip(row.event.text)
    ELSE <<"Unknown Event">>

\* the three value cells: eventActual, eventForecast, eventPrevious
ParseValue(row, cell) ==
    IF cell \in DOMAIN row THEN Strip(row[cell]) ELSE <<>>

ParseRow(row, now) ==
    [time |-> ParseTime(row),
     country |-> ParseCountry(row),
     impact |-> ParseImpact(row),
     name |-> ParseName(row),
     actual |-> ParseValue(row, "eventActual"),
     forecast |-> ParseValue(row, "eventForecast"),
     previous |-> ParseValue(row, "eventPrevious"),
     date |-> DateOf(now)]

\* ------------------------------------------------------------------------
\* Date formatting
\* ------------------------------------------------------------------------
MonthNames == <<"January", "February", "March", "April", "May", "June", "July",
                "August", "September", "October", "November", "December">>
WeekdayNames == <<"Monday", "Tuesday", "Wednesday", "Thursday", "Friday",
                  "Saturday", "Sunday">>

\* date.weekday(): 0 = Monday; 2025-01-01 (day 0) is a Wednesday
Weekday(n) == (n + 2) % 7

\* the %d directive: two digits
TwoDigits(k) == IF k < 10 THEN <<"0", ToString(k)>> ELSE <<ToString(k)>>

\* strftime('%B %d, %Y')
FormatLong(n) ==
    LET md == MonthDay(n % 365, 1)
    IN  <<MonthNames[md[1]], " ">> \o TwoDigits(md[2])
        \o <<", ", ToString(2025 + (n \div 365))>>

\* strftime('%A, %B %d')
FormatWeekday(n) ==
    LET md == MonthDay(n % 365, 1)
    IN  <<WeekdayNames[Weekday(n) + 1], ", ", MonthNames[md[1]], " ">>
        \o TwoDigits(md[2])

\* strftime('%A, %B %d, %Y')
FormatWeekdayLong(n) ==
    FormatWeekday(n) \o <<", ", ToString(2025 + (n \div 365))>>

\* '\n'.join(list)
RECURSIVE JoinLines(_)
JoinLines(list) ==
    IF list = <<>> THEN <<>>
    ELSE IF Len(list) = 1 THEN list[1]
    ELSE list[1] \o <<"\n">> \o JoinLines(Tail(list))

\* sorted(S) for a set of integers
Sorted(S) ==
    [i \in 1..Cardinality(S) |->
        CHOOSE x \in S : Cardinality({y \in S : y < x}) = i - 1]

\* ------------------------------------------------------------------------
\* bot.py : notifications
\* ------------------------------------------------------------------------
Embed(title, description, clr, fields, footer_text) ==
    [title |-> title, description |-> description, color |-> clr,
     fields |-> fields, footer_text |-> footer_text]

Footer == <<"Economic Calendar Bot - Data from Investing.com">>

NoEventsWeekDescription ==
    <<"No U.S. Medium or High impact events scheduled for the upcoming week.">>
NoEventsTomorrowDescription ==
    <<"No U.S. Medium or High impact events scheduled for tomorrow.">>
WeekAheadTitle == <<"Economic Calendar - Week Ahead">>
WeekAheadDescription ==
    <<"U.S. Medium & High Impact Events for the Next 7 Days">>
TomorrowTitle(now) == <<"Tomorrow's Economic Events - ">> \o FormatLong(now + 1)

\* the loop body of send_tomorrows_events
TomorrowField(event) ==
    LET em == IF event.impact = "High" THEN "red_circle"
              ELSE IF event.impact = "Medium" THEN "orange_circle"
              ELSE "yellow_circle"
        field_value ==
            <<"alarm_clock ">> \o event.time \o <<" (ET)">>
            \o (IF Truthy(DictGet(event, "forecast", None))
                THEN <<" | Forecast: ">> \o event.forecast ELSE <<>>)
            \o (IF Truthy(DictGet(event, "previous", None))
                THEN <<" | Previous: ">> \o event.previous ELSE <<>>)
    IN  [name |-> <<em, " ">> \o event.name, value |-> field_value, inline |-> FALSE]

\* a plausible slip: the flag is overwritten by every event, so only the last
\* event decides
has_high_impact_last(evs) == evs # <<>> /\ evs[Len(evs)].impact = "High"

has_high_impact(evs) == \E i \in 1..Len(evs) : evs[i].impact = "High"

\* the notification send_tomorrows_events passes to send_discord_embed
TomorrowEmbed(evs, now) ==
    IF evs = <<>>
    THEN Embed(TomorrowTitle(now), NoEventsTomorrowDescription, 5763719, <<>>, Footer)
    ELSE Embed(TomorrowTitle(now), <<"U.S. Medium & High Impact Events">>,
               IF has_high_impact(evs) THEN 15548997 ELSE 15105570,
               [i \in 1..Len(evs) |-> TomorrowField(evs[i])], Footer)

\* the grouping loop of get_weekly_events; 0 stands for the key 'Unknown'
RECURSIVE GroupByDate(_, _)
GroupByDate(evs, events_by_date) ==
    IF evs = <<>> THEN events_by_date
    ELSE LET date == DictGet(Head(evs), "date", 0)
             old == IF date \in DOMAIN events_by_date
                    THEN events_by_date[date] ELSE <<>>
         IN  GroupByDate(Tail(evs),
                 [d \in DOMAIN events_by_date \cup {date} |->
                     IF d = date THEN Append(old, Head(evs)) ELSE events_by_date[d]])

\* an empty dict
EmptyDict == [d \in {} |-> <<>>]

\* the body of the rendering loop of weekly_preview
WeekField(date, evs) ==
    LET date_text == IF IsDate(date) THEN FormatWeekday(DayNumber(date))
                     ELSE <<"Unknown">>
        event_list == [i \in 1..Len(evs) |->
                         <<IF evs[i].impact = "High" THEN "red_circle"
                           ELSE "orange_circle", " ">>
                         \o evs[i].name \o <<" - ">> \o evs[i].time]
    IN  [name |-> <<"calendar ">> \o date_text,
         value |-> IF event_list # <<>> THEN JoinLines(event_list)
                   ELSE <<"No events">>,
         inline |-> FALSE]

\* a plausible slip: the empty test of weekly_preview is lost
WeekEmbedUnguarded(events_by_date) ==
    LET keys == Sorted(DOMAIN events_by_date)
    IN  Embed(WeekAheadTitle, WeekAheadDescription, 3447003,
              [i \in 1..Len(keys) |-> WeekField(keys[i], events_by_date[keys[i]])],
              Footer)

\* the notification weekly_preview passes to send_discord_embed
WeekEmbed(events_by_date) ==
    IF DOMAIN events_by_date = {}
    THEN Embed(WeekAheadTitle, NoEventsWeekDescription, 5763719, <<>>, Footer)
    ELSE LET keys == Sorted(DOMAIN events_by_date)
         IN  Embed(WeekAheadTitle, WeekAheadDescription, 3447003,
                   [i \in 1..Len(keys) |-> WeekField(keys[i], events_by_date[keys[i]])],
                   Footer)

\* the released events of check_results
RECURSIVE Released(_)
Released(evs) ==
    IF evs = <<>> THEN <<>>
    ELSE (IF Truthy(DictGet(Head(evs), "actual", None))
              /\ Truthy(Strip(Head(evs).actual))
          THEN <<Head(evs)>> ELSE <<>>) \o Released(Tail(evs))

ResultField(event) ==
    [name |-> <<"chart ">> \o event.name,
     value |-> <<"Actual: **">> \o event.actual \o <<"**">>
               \o (IF Truthy(DictGet(event, "forecast", None))
                   THEN <<" | Forecast: ">> \o event.forecast ELSE <<>>)
               \o (IF Truthy(DictGet(event, "previous", None))
                   THEN <<" | Previous: ">> \o event.previous ELSE <<>>),
     inline |-> FALSE]

ResultsEmbed(released_events) ==
    Embed(<<"Economic Data Released">>, <<"Latest U.S. economic data updates">>,
          5763719, [i \in 1..Len(released_events) |-> ResultField(released_events[i])],
          Footer)

\* ------------------------------------------------------------------------
\* The notifier of both bots
\* ------------------------------------------------------------------------
StatusCodes == {204, 200, 404}

\* what requests.post can do: answer with a status or raise
PostOutcomes ==
    { [kind |-> "status", status_code |-> c] : c \in StatusCodes }
    \cup { [kind |-> "exception", status_code |-> 0] }

\* a plausible slip: any 2xx status counts as success
IsSuccessAny2xx(outcome) ==
    outcome.kind = "status" /\ outcome.status_code \in 200..299

\* response.status_code == 204, False when requests.post raised
IsSuccess(outcome) ==
    outcome.kind = "status" /\ outcome.status_code = 204

\* bot.py send_discord_embed applied to the notification e
send_discord_embed(e) ==
    /\ embed' = e
    /\ calls' = calls + 1
    /\ IF ~Truthy(WEBHOOK_URL)
       THEN /\ result' = FALSE
            /\ UNCHANGED <<posts, response>>
       ELSE \E outcome \in PostOutcomes :
                /\ posts' = posts + 1
                /\ response' = outcome
                /\ result' = IsSuccess(outcome)
    /\ UNCHANGED <<WEBHOOK_URL, raised>>

\* requests.post(url, ...) of opex_2026_bot.py: a URL that is None or empty
\* makes requests raise MissingSchema inside the call
OpexPostOutcomes(url) ==
    IF Truthy(url) THEN PostOutcomes
    ELSE { [kind |-> "exception", status_code |-> 0] }

\* opex_2026_bot.py send_discord_embed applied to the notification e
opex_send_discord_embed(e) ==
    /\ embed' = e
    /\ calls' = calls + 1
    /\ \E outcome \in OpexPostOutcomes(WEBHOOK_URL) :
            /\ posts' = posts + 1
            /\ response' = outcome
            /\ result' = IsSuccess(outcome)
    /\ UNCHANGED <<WEBHOOK_URL, raised>>

\* ------------------------------------------------------------------------
\* opex_2026_bot.py : get_upcoming_opex and the notifications
\* ------------------------------------------------------------------------
ListSet(list) == { list[i] : i \in 1..Len(list) }

get_all_opex_dates ==
    Sorted(ListSet(VIX_STANDARD_2026) \cup ListSet(VIX_WEEKLYS_2026)
           \cup ListSet(OCC_MONTHLY_2026) \cup ListSet(QUARTERLY_2026)
           \cup ListSet(END_OF_MONTH_2026))

\* the loop of get_upcoming_opex: the dates kept, in the order visited
UpcomingLoop(dates, days, now) ==
    LET InWindow(d) ==
            /\ 0 <= DayNumber(d) - now
            /\ DayNumber(d) - now <= days
            /\ get_event_type(d) # <<>>
        kept == SelectSeq(dates, InWindow)
    IN  [i \in 1..Len(kept) |->
            [date |-> kept[i], date_obj |-> DayNumber(kept[i]),
             days_until |-> DayNumber(kept[i]) - now,
             events |-> get_event_type(kept[i]),
             emoji |-> get_importance_emoji(kept[i])]]

get_upcoming_opex(days, now) == UpcomingLoop(get_all_opex_dates, days, now)

\* sep.join(list) for a list of one-piece strings
RECURSIVE Join(_, _)
Join(list, sep) ==
    IF list = <<>> THEN <<>>
    ELSE IF Len(list) = 1 THEN <<list[1]>>
    ELSE <<list[1], sep>> \o Join(Tail(list), sep)

OpexFooter == <<"2026 OPEX Calendar - CBOE">>

\* the loop body of opex weekly_preview
OpexWeekField(event) ==
    [name |-> FormatWeekday(event.date_obj),
     value |-> <<event.emoji, " **">> \o Join(event.events, " + ") \o <<"**">>
               \o (IF event.days_until = 0 THEN <<"\n", "TODAY">>
                   ELSE IF event.days_until = 1 THEN <<"\n", "Tomorrow">>
                   ELSE <<"\n", ToString(event.days_until), " days away">>),
     inline |-> FALSE]

OpexWeekEmbed(up) ==
    Embed(<<"OPEX Calendar - Week Ahead (2026)">>,
          <<"Upcoming options expirations this week">>, 5793266,
          [i \in 1..Len(up) |-> OpexWeekField(up[i])], OpexFooter)

\* the D-1 reminder and the day-of alert of daily_reminders
OpexDailyEmbed(event) ==
    IF event.days_until = 1
    THEN Embed(<<"Tomorrow: ", event.emoji, " OPEX Alert">>,
               <<"**">> \o FormatWeekdayLong(event.date_obj) \o <<"**">>,
               get_color_for_event(event.date),
               << [name |-> <<"Event Types">>,
                   value |-> Join(event.events, " + "), inline |-> FALSE],
                  [name |-> <<"Reminder">>,
                   value |-> <<"Options expiration tomorrow">>, inline |-> FALSE] >>,
               OpexFooter)
    ELSE Embed(<<"TODAY: ", event.emoji, " OPEX ACTIVE">>,
               <<"**Options Expiration Day**", "\n">>
                   \o FormatWeekdayLong(event.date_obj),
               15158332,
               << [name |-> <<"Expiring Today">>,
                   value |-> Join(event.events, " + "), inline |-> FALSE],
                  [name |-> <<"Market Impact">>,
                   value |-> <<"Monitor for increased volatility and volume">>,
                   inline |-> FALSE] >>,
               OpexFooter)

\* ------------------------------------------------------------------------
\* Spec : one run of bot.py or of opex_2026_bot.py
\* ------------------------------------------------------------------------
\* rows a fetched page can hold
RowHigh ==
    [tag |-> "tr",
     time |-> <<" ", "8", ":", "3", "0", " ">>,
     flagCur |-> [span |-> [title |-> UnitedStates]],
     sentiment |-> [bull_count |-> 3],
     event |-> [a |-> <<"\n", "C", "P", "I", " ">>, text |-> <<"\n", "C", "P", "I", " ">>],
     eventActual |-> <<" ">>,
     eventForecast |-> <<"0", ".", "3", "%">>,
     eventPrevious |-> <<"0", ".", "2", "%">>]

RowLow ==
    [tag |-> "tr",
     time |-> <<"9", ":", "0", "0">>,
     flagCur |-> [span |-> [title |-> UnitedStates]],
     sentiment |-> [bull_count |-> 1],
     event |-> [text |-> <<" ", "G", "D", "P">>],
     eventPrevious |-> <<"2", ".", "1">>]

RowMediumReleased ==
    [tag |-> "tr",
     time |-> <<"7", ":", "0", "0">>,
     flagCur |-> [span |-> [title |-> UnitedStates]],
     sentiment |-> [bull_count |-> 2],
     event |-> [a |-> <<"P", "M", "I">>, text |-> <<"P", "M", "I">>],
     eventActual |-> <<" ", "5", "1", " ">>,
     eventForecast |-> <<"5", "0">>]

\* a flag cell whose span carries no title
RowNoTitle ==
    [tag |-> "tr",
     flagCur |-> [span |-> [class |-> "ceFlags"]],
     sentiment |-> [bull_count |-> 3],
     event |-> [a |-> <<"I", "f", "o">>, text |-> <<"I", "f", "o">>]]

\* every optional sub-element is missing
RowAllMissing == [tag |-> "tr"]

\* a row whose extraction raises
RowMalformed == [tag |-> "tr", malformed |-> TRUE]

RowSet == {RowHigh, RowLow, RowMediumReleased, RowNoTitle, RowAllMissing, RowMalformed}

\* the rows soup.find_all returns: at most MaxRows of them
Pages == UNION { [1..n -> RowSet] : n \in 0..MaxRows }

\* what requests.get, raise_for_status and BeautifulSoup can raise
FetchExceptions == {"Timeout", "ConnectionError", "HTTPError", "Exception"}

Flags == {"--test", "--tomorrow", "--weekly"}

WebhookValues == {None, <<>>, <<"https://discord.com/api/webhooks/1">>}

Init ==
    /\ pc \in {"main", "opex_main"}
    /\ today \in (IF pc = "main" THEN {FirstDay, LastDay} ELSE FirstDay..LastDay)
    /\ WEBHOOK_URL \in WebhookValues
    /\ embed = NoEmbed
    /\ calls = 0
    /\ posts = 0
    /\ response = NoResponse
    /\ result = FALSE
    /\ raised = FALSE
    /\ IdleScraper /\ IdleFilter /\ IdleTypes

\* the operation bot.py main selects
MainSelect(day_of_week, hour, argv) ==
    IF "--test" \in argv \/ "--tomorrow" \in argv THEN "send_tomorrows_events"
    ELSE IF "--weekly" \in argv THEN "weekly_preview"
    ELSE IF day_of_week = 0 /\ hour = 8 THEN "weekly_preview"
    ELSE IF hour = 8 THEN "daily_reminders"
    ELSE IF 9 <= hour /\ hour <= 17 /\ hour % 2 = 1 /\ day_of_week < 5
         THEN "check_results"
    ELSE "none"

\* bot.py main; the UTC weekday and hour are independent of the local date
main ==
    /\ pc = "main"
    /\ \E day_of_week \in 0..6, hour \in 0..23, argv \in SUBSET Flags :
           op' = MainSelect(day_of_week, hour, argv)
    /\ pc' = IF op' = "none" THEN "done" ELSE "scrape"
    /\ UNCHANGED <<today, page, event_rows, events, notifierVars, filterVars, typeVars>>

DateFilter(o) == IF o = "weekly_preview" THEN "week" ELSE "tomorrow"

\* a plausible slip: a failed fetch is raised to the caller
FetchFailsPropagates ==
    /\ pc = "scrape"
    /\ \E e \in FetchExceptions : page' = [status |-> e, rows |-> <<>>]
    /\ raised' = TRUE
    /\ pc' = "done"
    /\ UNCHANGED <<today, op, event_rows, events, filterVars, typeVars,
                   WEBHOOK_URL, embed, calls, posts, response, result>>

\* scrape_investing_com: the request, raise_for_status or the soup raises
FetchFails ==
    /\ pc = "scrape"
    /\ \E e \in FetchExceptions : page' = [status |-> e, rows |-> <<>>]
    /\ all_events' = get_mock_data(DateFilter(op), today)
    /\ pc' = "filter"
    /\ UNCHANGED <<today, op, event_rows, events, country, min_impact, filtered,
                   notifierVars, typeVars>>

\* scrape_investing_com: the page is fetched and its rows are found
FetchOk ==
    /\ pc = "scrape"
    /\ \E rows \in Pages :
          /\ page' = [status |-> "ok", rows |-> rows]
          /\ event_rows' = rows
          /\ IF rows = <<>>
             THEN all_events' = <<>> /\ pc' = "filter"
             ELSE all_events' = all_events /\ pc' = "parse"
    /\ events' = <<>>
    /\ UNCHANGED <<today, op, country, min_impact, filtered, notifierVars, typeVars>>

\* a plausible slip: a row that raises aborts the batch and the fallback is used
ParseRowStepAborts ==
    /\ pc = "parse"
    /\ event_rows # <<>>
    /\ IF RowRaises(Head(event_rows))
       THEN /\ all_events' = get_mock_data(DateFilter(op), today)
            /\ pc' = "filter"
            /\ UNCHANGED events
       ELSE /\ events' = Append(events, ParseRow(Head(event_rows), today))
            /\ UNCHANGED <<all_events, pc>>
    /\ event_rows' = Tail(event_rows)
    /\ UNCHANGED <<today, op, page, country, min_impact, filtered,
                   notifierVars, typeVars>>

\* one iteration of the row loop of scrape_investing_com
ParseRowStep ==
    /\ pc = "parse"
    /\ event_rows # <<>>
    /\ events' = IF RowRaises(Head(event_rows)) THEN events
                 ELSE Append(events, ParseRow(Head(event_rows), today))
    /\ event_rows' = Tail(event_rows)
    /\ UNCHANGED <<pc, today, op, page, filterVars, notifierVars, typeVars>>

\* the row loop is over: return events
ParseReturn ==
    /\ pc = "parse"
    /\ event_rows = <<>>
    /\ all_events' = events
    /\ pc' = "filter"
    /\ UNCHANGED <<today, scraperVars, country, min_impact, filtered,
                   notifierVars, typeVars>>

\* the filter_events call of get_tomorrows_events, get_weekly_events, check_results
Filter ==
    /\ pc = "filter"
    /\ country' = UnitedStates
    /\ min_impact' = "Medium"
    /\ filtered' = filter_events(all_events, UnitedStates, "Medium")
    /\ pc' = "format"
    /\ UNCHANGED <<today, all_events, scraperVars, notifierVars, typeVars>>

\* send_tomorrows_events (also reached through daily_reminders)
send_tomorrows_events ==
    /\ pc = "format"
    /\ op \in {"send_tomorrows_events", "daily_reminders"}
    /\ send_discord_embed(TomorrowEmbed(filtered, today))
    /\ pc' = "done"
    /\ UNCHANGED <<today, scraperVars, filterVars, typeVars>>

\* weekly_preview
weekly_preview ==
    /\ pc = "format"
    /\ op = "weekly_preview"
    /\ send_discord_embed(WeekEmbed(GroupByDate(filtered, EmptyDict)))
    /\ pc' = "done"
    /\ UNCHANGED <<today, scraperVars, filterVars, typeVars>>

\* a plausible slip: the results notification is sent even when no value has
\* been released
check_results_always ==
    /\ pc = "format"
    /\ op = "check_results"
    /\ send_discord_embed(ResultsEmbed(Released(filtered)))
    /\ pc' = "done"
    /\ UNCHANGED <<today, scraperVars, filterVars, typeVars>>

\* check_results
check_results ==
    /\ pc = "format"
    /\ op = "check_results"
    /\ IF Released(filtered) = <<>>
       THEN UNCHANGED notifierVars
       ELSE send_discord_embed(ResultsEmbed(Released(filtered)))
    /\ pc' = "done"
    /\ UNCHANGED <<today, scraperVars, filterVars, typeVars>>

\* opex_2026_bot.py main; weekday and date come from the same utcnow()
opex_main ==
    /\ pc = "opex_main"
    /\ \E hour \in 0..23, argv \in SUBSET {"--test"} :
          op' = IF "--test" \in argv THEN "send_test_message"
                ELSE IF Weekday(today) = 0 /\ hour = 8 THEN "opex_weekly_preview"
                ELSE IF hour = 8 THEN "opex_daily_reminders"
                ELSE "none"
    /\ pc' = IF op' = "none" THEN "done" ELSE "opex_run"
    /\ UNCHANGED <<today, page, event_rows, events, notifierVars, filterVars, typeVars>>

\* send_test_message posts by itself, not through send_discord_embed
send_test_message ==
    /\ pc = "opex_run"
    /\ op = "send_test_message"
    /\ \E outcome \in OpexPostOutcomes(WEBHOOK_URL) :
          /\ posts' = posts + 1
          /\ response' = outcome
    /\ pc' = "done"
    /\ UNCHANGED <<today, WEBHOOK_URL, embed, calls, result, raised,
                   scraperVars, filterVars, typeVars>>

\* opex weekly_preview
opex_weekly_preview ==
    /\ pc = "opex_run"
    /\ op = "opex_weekly_preview"
    /\ LET up == get_upcoming_opex(7, today)
       IN  IF up = <<>>
           THEN UNCHANGED notifierVars
           ELSE opex_send_discord_embed(OpexWeekEmbed(up))
    /\ pc' = "done"
    /\ UNCHANGED <<today, scraperVars, filterVars, typeVars>>

\* opex daily_reminders: the call of get_upcoming_opex
opex_daily_reminders ==
    /\ pc = "opex_run"
    /\ op = "opex_daily_reminders"
    /\ upcoming' = get_upcoming_opex(1, today)
    /\ pc' = "opex_daily_loop"
    /\ UNCHANGED <<today, date_str, labels, color, emoji,
                   scraperVars, filterVars, notifierVars>>

\* opex daily_reminders: one iteration of the loop over upcoming
opex_daily_step ==
    /\ pc = "opex_daily_loop"
    /\ upcoming # <<>>
    /\ IF Head(upcoming).days_until \in {0, 1}
       THEN opex_send_discord_embed(OpexDailyEmbed(Head(upcoming)))
       ELSE UNCHANGED notifierVars
    /\ upcoming' = Tail(upcoming)
    /\ UNCHANGED <<pc, today, date_str, labels, color, emoji, scraperVars, filterVars>>

\* opex daily_reminders: the loop is over
opex_daily_return ==
    /\ pc = "opex_daily_loop"
    /\ upcoming = <<>>
    /\ pc' = "done"
    /\ UNCHANGED <<today, scraperVars, filterVars, notifierVars, typeVars>>

\* requests.post of opex_2026_bot.py is called without a timeout (lines 159
\* and 325; bot.py passes timeout=10): when the server accepts the request
\* and never answers, the call does not return
NoAnswer == [kind |-> "no answer", status_code |-> 0]

opex_post_blocks ==
    /\ Truthy(WEBHOOK_URL)
    /\ \/ /\ pc = "opex_run"
          /\ op = "send_test_message"
          /\ UNCHANGED <<embed, calls, upcoming>>
       \/ /\ pc = "opex_run"
          /\ op = "opex_weekly_preview"
          /\ get_upcoming_opex(7, today) # <<>>
          /\ embed' = OpexWeekEmbed(get_upcoming_opex(7, today))
          /\ calls' = calls + 1
          /\ UNCHANGED upcoming
       \/ /\ pc = "opex_daily_loop"
          /\ upcoming # <<>>
          /\ Head(upcoming).days_until \in {0, 1}
          /\ embed' = OpexDailyEmbed(Head(upcoming))
          /\ calls' = calls + 1
          /\ upcoming' = Tail(upcoming)
    /\ posts' = posts + 1
    /\ response' = NoAnswer
    /\ pc' = "blocked"
    /\ UNCHANGED <<today, WEBHOOK_URL, result, raised, date_str, labels, color,
                   emoji, scraperVars, filterVars>>

Next ==
    \/ main
    \/ FetchFails
    \/ FetchOk
    \/ ParseRowStep
    \/ ParseReturn
    \/ Filter
    \/ send_tomorrows_events
    \/ weekly_preview
    \/ check_results
    \/ opex_main
    \/ send_test_message
    \/ opex_weekly_preview
    \/ opex_daily_reminders
    \/ opex_daily_step
    \/ opex_daily_return
    \/ opex_post_blocks

Spec == Init /\ [][Next]_vars


\* ------------------------------------------------------------------------
\* Claims about a run
\* ------------------------------------------------------------------------
OptionalElements ==
    {"time", "flagCur", "sentiment", "event", "eventActual", "eventForecast",
     "eventPrevious"}

\* the row the parse loop has just left
LastRow == page.rows[Len(page.rows) - Len(event_rows)]

RowJustParsed ==
    /\ pc = "parse"
    /\ Len(event_rows) < Len(page.rows)

\* C3: a row whose optional sub-elements are all missing does not raise and
\* appends a record with all eight keys and the defaults: time "N/A",
\* country "Unknown", impact "Unknown", name "Unknown Event", and empty
\* actual, forecast and previous.
C3_DefaultsRecord ==
    (/\ RowJustParsed
     /\ DOMAIN LastRow \cap (OptionalElements \cup {"malformed"}) = {})
    => /\ ~raised
       /\ events # <<>>
       /\ LET e == events[Len(events)]
          IN  /\ DOMAIN e = {"time", "country", "impact", "name", "actual",
                             "forecast", "previous", "date"}
              /\ e.time = <<"N/A">>
              /\ e.country = <<"U", "n", "k", "n", "o", "w", "n">>
              /\ e.impact = "Unknown"
              /\ e.name = <<"Unknown Event">>
              /\ e.actual = <<>>
              /\ e.forecast = <<>>
              /\ e.previous = <<>>

\* the all-missing row has been parsed after another row
C3_Witness ==
    /\ RowJustParsed
    /\ LastRow = RowAllMissing
    /\ Len(events) = 2
    /\ events[2].name = <<"Unknown Event">>

\* the records of the rows that do not raise, in document order
RECURSIVE RecordsOf(_, _)
RecordsOf(rows, now) ==
    IF rows = <<>> THEN <<>>
    ELSE (IF "malformed" \in DOMAIN Head(rows) THEN <<>>
          ELSE <<ParseRow(Head(rows), now)>>) \o RecordsOf(Tail(rows), now)

ScrapeReturned ==
    \/ pc \in {"filter", "format"}
    \/ pc = "done" /\ op \in {"send_tomorrows_events", "daily_reminders",
                              "weekly_preview", "check_results"}

Filtered ==
    \/ pc = "format"
    \/ pc = "done" /\ op \in {"send_tomorrows_events", "daily_reminders",
                              "weekly_preview", "check_results"}

\* the record of the valid High row of the scenario
HighRecord ==
    [time |-> <<"8", ":", "3", "0">>,
     country |-> <<"U","n","i","t","e","d"," ","S","t","a","t","e","s">>,
     impact |-> "High",
     name |-> <<"C", "P", "I">>,
     actual |-> <<>>,
     forecast |-> <<"0", ".", "3", "%">>,
     previous |-> <<"0", ".", "2", "%">>,
     date |-> DateOf(today)]

\* C7: on a fetched page with valid rows and a row whose extraction raises,
\* scrape_investing_com returns the records of all other rows in document
\* order, without raising and without the fallback; for the valid High and
\* Low United States rows plus one malformed row, the filter result is
\* exactly the High event.
C7_SkipsOnlyFailingRow ==
    /\ (ScrapeReturned /\ page.status = "ok")
          => /\ ~raised
             /\ all_events = RecordsOf(page.rows, today)
    /\ (/\ Filtered
        /\ page.status = "ok"
        /\ Len(page.rows) = 3
        /\ ListSet(page.rows) = {RowHigh, RowLow, RowMalformed})
          => filtered = <<HighRecord>>

\* the malformed row stands between the two valid rows
C7_Witness ==
    /\ pc = "done"
    /\ page = [status |-> "ok", rows |-> <<RowHigh, RowMalformed, RowLow>>]
    /\ Len(all_events) = 2
    /\ filtered = <<HighRecord>>
    /\ ~raised

\* C4: in weekly_preview an empty filtered set gives the "no events"
\* notification (green, no-events description), never a week-ahead
\* notification without fields; every field of a week-ahead notification
\* has a non-empty value.
C4_NoEventsNotification ==
    (pc = "done" /\ op = "weekly_preview")
    => /\ filtered = <<>>
            => /\ embed.color = 5763719
               /\ embed.description = NoEventsWeekDescription
               /\ embed.fields = <<>>
       /\ embed.description = WeekAheadDescription
            => /\ filtered # <<>>
               /\ embed.fields # <<>>
               /\ \A i \in 1..Len(embed.fields) : embed.fields[i].value # <<>>

\* rows were fetched and none passed the filter
C4_Witness ==
    /\ pc = "done"
    /\ op = "weekly_preview"
    /\ page.status = "ok"
    /\ Len(all_events) >= 2
    /\ filtered = <<>>
    /\ embed.description = NoEventsWeekDescription
    /\ calls = 1

\* C6: with an empty or unset webhook URL, send_discord_embed of either bot
\* returns False without raising and without invoking the HTTP POST.
C6_UnsetSkipsPost ==
    (~Truthy(WEBHOOK_URL) /\ calls > 0)
    => /\ result = FALSE
       /\ ~raised
       /\ posts = 0

MockRecords(now) == ListSet(get_mock_data("week", now))

\* C9: for every fetch failure scrape_investing_com raises nothing and
\* returns get_mock_data(date_filter); its result is entirely parsed records
\* or entirely fallback records.
C9_FallbackOnFailure ==
    ScrapeReturned =>
          /\ ~raised
          /\ page.status \in {"Timeout", "ConnectionError", "HTTPError", "Exception"}
                => all_events = get_mock_data(DateFilter(op), today)
          /\ \/ \A i \in 1..Len(all_events) : all_events[i] \in MockRecords(today)
             \/ \A i \in 1..Len(all_events) :
                   \E j \in 1..Len(page.rows) :
                       /\ ~RowRaises(page.rows[j])
                       /\ all_events[i] = ParseRow(page.rows[j], today)

\* a timeout in the weekly preview: the twelve fallback records are returned
C9_Witness ==
    /\ pc = "filter"
    /\ page.status = "Timeout"
    /\ op = "weekly_preview"
    /\ Len(all_events) = 12
    /\ all_events[12].name = <<"Economic Event ", "7">>
    /\ ~raised

\* C10: with a configured webhook each call of send_discord_embed issues
\* exactly one POST and returns True exactly when the response status is
\* 204; any other status or a transport exception gives False, with no
\* second POST and no exception.  The value is that of a call that returns.
C10_OnePostPerCall ==
    [][(calls' = calls + 1 /\ Truthy(WEBHOOK_URL))
         => /\ posts' = posts + 1
            /\ pc' # "blocked"
                 => result' = (response'.kind = "status"
                                 /\ response'.status_code = 204)
            /\ ~raised']_vars

\* two reminders in one run, the second answered with status 200
C10_Witness ==
    /\ Truthy(WEBHOOK_URL)
    /\ calls = 2
    /\ posts = 2
    /\ response = [kind |-> "status", status_code |-> 200]
    /\ result = FALSE

\* C11: every run of either bot's main reaches its end without an uncaught
\* error, whatever the weekday, hour, flag, fetch outcome, page content,
\* webhook configuration and POST outcome.
\* As a property of states: no error has escaped the run, and the run is
\* never held at a call that does not return.
C11_Terminates == ~raised /\ pc # "blocked"

\* C12: for every date of the static tables, the label list of get_event_type
\* holds one label for every table the date is in: "VIX Monthly" for the
\* VIX-standard table, "VIX Weekly" for the VIX-weekly table, "Monthly OPEX"
\* or "Quarterly OPEX" for the OCC table, "Quarterly OPEX" for the quarterly
\* table, and for the end-of-month table "EOM Options", or "Quarterly OPEX"
\* when the date is also quarterly.
C12_EveryCategoryLabelled ==
    pc = "types_done" =>
        /\ InList(date_str, VIX_STANDARD_2026) => InList("VIX Monthly", labels)
        /\ InList(date_str, VIX_WEEKLYS_2026) => InList("VIX Weekly", labels)
        /\ InList(date_str, OCC_MONTHLY_2026)
              => \/ InList("Monthly OPEX", labels)
                 \/ InList("Quarterly OPEX", labels)
        /\ InList(date_str, QUARTERLY_2026) => InList("Quarterly OPEX", labels)
        /\ InList(date_str, END_OF_MONTH_2026)
              => IF InList(date_str, QUARTERLY_2026)
                 THEN InList("Quarterly OPEX", labels)
                 ELSE InList("EOM Options", labels)

\* the dates of the five tables that are 0..days days after now
TableDatesWithin(days, now) ==
    { d \in ListSet(VIX_STANDARD_2026) \cup ListSet(VIX_WEEKLYS_2026)
            \cup ListSet(OCC_MONTHLY_2026) \cup ListSet(QUARTERLY_2026)
            \cup ListSet(END_OF_MONTH_2026) :
        0 <= DayNumber(d) - now /\ DayNumber(d) - now <= days }

\* C13: get_upcoming_opex(N) returns one entry for each distinct table date
\* with 0 <= days_until <= N, in ascending date order, and none for any other
\* date: the daily reminder (N = 1) iterates over exactly these dates, and the
\* weekly preview (N = 7) renders exactly one field for each of them, in order.
C13_UpcomingExact ==
    [][/\ (pc = "opex_run" /\ op = "opex_daily_reminders")
            => [i \in DOMAIN upcoming' |-> upcoming'[i].date]
                 = Sorted(TableDatesWithin(1, today))
       /\ (/\ pc = "opex_run"
           /\ op = "opex_weekly_preview"
           /\ TableDatesWithin(7, today) # {})
            => [i \in DOMAIN embed'.fields |-> embed'.fields[i].name]
                 = [i \in 1..Cardinality(TableDatesWithin(7, today)) |->
                      FormatWeekday(DayNumber(Sorted(TableDatesWithin(7, today))[i]))]
      ]_vars

\* the tables in the priority order quarterly, monthly (OCC), VIX-standard,
\* end-of-month
PriorityTables ==
    <<QUARTERLY_2026, OCC_MONTHLY_2026, VIX_STANDARD_2026, END_OF_MONTH_2026>>

\* the rank of the highest-priority table holding d, 5 (weekly) when none does
PriorityClass(d) ==
    LET ranks == { i \in 1..4 : InList(d, PriorityTables[i]) } \cup {5}
    IN  CHOOSE i \in ranks : \A j \in ranks : i <= j

ClassColors == <<15844367, 15548997, 10181046, 3447003, 7506394>>

ClassEmojis ==
    <<"red_circle", "orange_circle", "purple_circle", "blue_circle", "white_circle">>

\* C14: for every date, get_color_for_event and get_importance_emoji return
\* the colour and the emoji of the highest-priority table holding the date, in
\* the order quarterly, monthly (OCC), VIX-standard, end-of-month, else
\* weekly; so both pick the same priority class.
C14_SamePriorityClass ==
    pc = "types_done" =>
        /\ color = ClassColors[PriorityClass(date_str)]
        /\ emoji = ClassEmojis[PriorityClass(date_str)]

\* both functions have run on 2026-09-30, which is in the quarterly, the
\* end-of-month and the VIX-weekly tables
C14_Witness ==
    /\ pc = "types_done"
    /\ date_str = 20260930
    /\ InList(date_str, END_OF_MONTH_2026)
    /\ InList(date_str, VIX_WEEKLYS_2026)
    /\ color = 15844367
    /\ emoji = "red_circle"

\* send_tomorrows_events has returned from a run with events to report
TomorrowSent ==
    /\ pc = "done"
    /\ op \in {"send_tomorrows_events", "daily_reminders"}
    /\ filtered # <<>>

\* C15: send_tomorrows_events with a non-empty filtered sequence builds one
\* field per event, in input order (the field's name is the impact emoji, a
\* space and the event's name), and the colour is 15548997 if and only if
\* some event has impact High, and 15105570 otherwise.
C15_FieldPerEvent ==
    TomorrowSent =>
        /\ Len(embed.fields) = Len(filtered)
        /\ \A i \in 1..Len(filtered) :
              /\ Len(embed.fields[i].name) >= 2
              /\ Tail(Tail(embed.fields[i].name)) = filtered[i].name
        /\ embed.color = 15548997
              <=> \E i \in 1..Len(filtered) : filtered[i].impact = "High"
        /\ embed.color \in {15548997, 15105570}

\* two or more events were reported, a High one before a Medium one
C15_Witness ==
    /\ TomorrowSent
    /\ Len(filtered) >= 2
    /\ filtered[1].impact = "High"
    /\ filtered[Len(filtered)].impact = "Medium"
    /\ filtered[1].name # filtered[Len(filtered)].name
    /\ Len(embed.fields) = Len(filtered)
    /\ embed.color = 15548997

\* the positions of a run of bot.py, in pipeline order: operation selection,
\* fetch, parse, filter, format and notify, end
StepRank ==
    [p \in {"main", "scrape", "parse", "filter", "format", "done"} |->
        CASE p = "main" -> 0
          [] p = "scrape" -> 1
          [] p = "parse" -> 2
          [] p = "filter" -> 3
          [] p = "format" -> 4
          [] p = "done" -> 5]

\* C16: in every run of bot.py's main the steps occur in the order fetch,
\* parse, filter, format, notify: the run never goes back, the filter runs
\* after the fetch or the parse and right before the format; a POST is issued
\* only from the format-and-notify step, after the fetch has completed or
\* failed and every row has been visited; at most one POST is issued per run,
\* and none by a run that selects no operation or by a results check with no
\* released value.
C16_PipelineOrder ==
    [][(pc # "done" /\ pc \in DOMAIN StepRank) =>
          /\ StepRank[pc'] >= StepRank[pc]
          /\ pc' = "filter" => pc \in {"scrape", "parse", "filter"}
          /\ pc' = "format" => pc \in {"filter", "format"}
          /\ posts' # posts
                => /\ pc = "format"
                   /\ page.status # "none"
                   /\ event_rows = <<>>
          /\ posts' <= 1
          /\ op' = "none" => posts' = 0
          /\ (op = "check_results" /\ Released(filtered) = <<>>) => posts' = 0
      ]_vars

\* a results check has posted its one notification after a fetched page was
\* parsed and filtered
C16_Witness ==
    /\ pc = "done"
    /\ op = "check_results"
    /\ page.status = "ok"
    /\ event_rows = <<>>
    /\ Released(filtered) # <<>>
    /\ calls = 1
    /\ posts = 1

====
